---- MODULE Spec2Model ----
(***************************************************************************)
(* HttpEventBridgeIntegration (aws-apigatewayv2-integrations, lib/http/    *)
(* eventbridge.ts): the integration of an HTTP API route with EventBridge  *)
(* PutEvents.  The model keeps the construct tree as far as bind touches   *)
(* it: the roles with their trust policy and policy statements, the        *)
(* ParameterMapping objects (a heap, since the code passes them around by  *)
(* reference), the integration instances with their props, the configs     *)
(* bind returned, the AWS::ApiGatewayV2::Integration resources and the     *)
(* routes.                                                                 *)
(*                                                                         *)
(* Strings the code takes apart or puts together (ARNs, bus names) are     *)
(* sequences of tokens, ":" and "/" being tokens of their own; every value *)
(* of a parameter mapping is such a sequence.                              *)
(***************************************************************************)
EXTENDS Integers, Sequences, FiniteSets, TLC

\* stack            the stack of the routes: partition, region, account
\* mappings         the ParameterMapping objects, by reference: who made the
\*                  object (the caller, or bind) and its entries in order
\* integrations     the HttpEventBridgeIntegration instances: props, and the
\*                  HttpIntegration the base class remembers
\* roles            the iam.Role constructs, with scope, trust policy and
\*                  policy statements
\* configs          what each bind invocation returned, in order of the calls
\* httpIntegrations the AWS::ApiGatewayV2::Integration resources
\* routes           the HttpRoute constructs; a route is the scope bind gets
VARIABLES stack, mappings, integrations, roles, configs, httpIntegrations, routes

vars == <<stack, mappings, integrations, roles, configs, httpIntegrations, routes>>

\* ------------------------------------------------------------------ bounds
MaxCallerMappings == 1
MaxIntegrations == 2
MaxRoutes == 2

\* ------------------------------------------------------------------ inputs
None == [none |-> TRUE]

\* The stack the routes live in is environment-agnostic, as in the unit
\* tests: its ARNs carry the pseudo parameters.
Stacks ==
    { [partition |-> "Ref:AWS::Partition", region |-> "Ref:AWS::Region",
       account |-> "Ref:AWS::AccountId"] }

\* names of event buses defined in the stack
BusNames == { <<"orders">> }

\* ARNs handed to EventBus.fromEventBusArn: a partner event bus of another
\* account and region, whose name has a slash of its own
ImportedArns ==
    { <<"arn", ":", "aws", ":", "events", ":", "us-east-1", ":", "123456789012",
        ":", "event-bus", "/", "aws.partner", "/", "acme">> }

\* ------------------------------------------------------------------ core.Stack / core.Arn
\* Stack.formatArn with the stack's partition, region and account and the
\* default separator "/"
formatArn(service, resource, resourceName) ==
    <<"arn", ":", stack.partition, ":", service, ":", stack.region, ":",
      stack.account, ":", resource, "/">> \o resourceName

RECURSIVE indexOf(_, _, _)
\* the first position >= from of token sep in s, 0 when there is none
indexOf(s, sep, from) ==
    IF from > Len(s) THEN 0
    ELSE IF s[from] = sep THEN from
    ELSE indexOf(s, sep, from + 1)

RECURSIVE skipColons(_, _, _)
\* the position after the n-th ":" of s at or after from, 0 when s has fewer
skipColons(s, n, from) ==
    IF n = 0 THEN from
    ELSE LET p == indexOf(s, ":", from)
         IN  IF p = 0 THEN 0 ELSE skipColons(s, n - 1, p + 1)

\* Stack.splitArn(arn, ArnFormat.SLASH_RESOURCE_NAME): the sixth component
\* on is the resource; it is cut at its first "/" into resource and
\* resourceName
splitArn(arn) ==
    LET start == skipColons(arn, 5, 1)
        rest  == IF start = 0 THEN <<>> ELSE SubSeq(arn, start, Len(arn))
        sep   == indexOf(rest, "/", 1)
    IN  [resource     |-> IF sep = 0 THEN rest ELSE SubSeq(rest, 1, sep - 1),
         resourceName |-> IF sep = 0 THEN <<>> ELSE SubSeq(rest, sep + 1, Len(rest))]

\* ------------------------------------------------------------------ aws-events
\* new events.EventBus(stack, id, { eventBusName })
EventBus(name) ==
    [eventBusArn |-> formatArn("events", "event-bus", name), eventBusName |-> name]

\* events.EventBus.fromEventBusArn(stack, id, arn): the name is parsed out of
\* the ARN
fromEventBusArn(arn) ==
    [eventBusArn |-> arn, eventBusName |-> splitArn(arn).resourceName]

ImportedBuses == { fromEventBusArn(a) : a \in ImportedArns }

EventBuses == { EventBus(n) : n \in BusNames } \cup ImportedBuses

\* ------------------------------------------------------------------ apigatewayv2.ParameterMapping
\* ParameterMapping.custom(key, value) on the entries m of a mapping: a key
\* already there keeps its place and takes the new value, a new key is
\* appended
custom(m, key, value) ==
    IF \E i \in 1..Len(m) : m[i][1] = key
    THEN [i \in 1..Len(m) |-> IF m[i][1] = key THEN <<key, value>> ELSE m[i]]
    ELSE Append(m, <<key, value>>)

\* what a caller may write into a mapping of its own
CustomKeys == {"EventBusName"}

CustomValues(key) == { b.eventBusName : b \in EventBuses }

\* ------------------------------------------------------------------ aws-iam
\* new iam.ServicePrincipal(service)
ServicePrincipal(service) == [Service |-> service]

\* new iam.Role(scope, id, { assumedBy }): the trust policy has one statement
\* for the principal given, and the role starts without policy statements
Role(scope, id, assumedBy) ==
    [scope |-> scope, id |-> id,
     assumeRolePolicy |-> << [Effect |-> "Allow", Action |-> "sts:AssumeRole",
                              Principal |-> assumedBy] >>,
     statements |-> <<>>]

\* role.addToPolicy(statement)
addToPolicy(role, statement) ==
    [role EXCEPT !.statements = Append(@, statement)]

\* ------------------------------------------------------------------ HttpEventBridgeIntegration
\* InvokeRole trusting the service the role is used against
InvokeRoleEventsPrincipal(scope) ==
    Role(scope, "InvokeRole", ServicePrincipal("events.amazonaws.com"))

\* the invoke role of bind: its construct id and the principal trusted
InvokeRole(scope) ==
    Role(scope, "InvokeRole", ServicePrincipal("apigateway.amazonaws.com"))

\* eventBusArn granting on every resource when no bus is given
eventBusArnStar(props) ==
    IF props.eventBus # None THEN props.eventBus.eventBusArn ELSE <<"*">>

\* eventBusArn taking the bus from the EventBusName of a custom mapping
eventBusArnFromMapping(props) ==
    LET m == IF props.parameterMapping # 0
             THEN mappings[props.parameterMapping].mappings ELSE <<>>
    IN  IF \E i \in 1..Len(m) : m[i][1] = "EventBusName"
        THEN LET i == CHOOSE i \in 1..Len(m) : m[i][1] = "EventBusName"
             IN  formatArn("events", "event-bus", m[i][2])
        ELSE IF props.eventBus # None
        THEN props.eventBus.eventBusArn
        ELSE formatArn("events", "event-bus", <<"*">>)

\* the ARN the permission is scoped to: the bus given, or every event bus of
\* the stack's partition, region and account
eventBusArn(props) ==
    IF props.eventBus # None
    THEN props.eventBus.eventBusArn
    ELSE formatArn("events", "event-bus", <<"*">>)

\* AllowEventBridgePutEvents granting every action of the service
AllowEventBridgeAnyAction(arn) ==
    [effect |-> "Allow", sid |-> "AllowEventBridgePutEvents",
     actions |-> <<"events:*">>, resources |-> <<arn>>]

\* the statement bind adds to the invoke role
AllowEventBridgePutEvents(arn) ==
    [effect |-> "Allow", sid |-> "AllowEventBridgePutEvents",
     actions |-> <<"events:PutEvents">>, resources |-> <<arn>>]

\* createDefaultParameterMapping with EventBusName set to the ARN of the bus
createDefaultParameterMappingArn(props) ==
    LET mapping == custom(custom(custom(<<>>,
                       "Detail", <<"$request.body.Detail">>),
                       "DetailType", <<"$request.body.DetailType">>),
                       "Source", <<"$request.body.Source">>)
    IN  IF props.eventBus # None
        THEN custom(mapping, "EventBusName", props.eventBus.eventBusArn)
        ELSE mapping

\* createDefaultParameterMapping adding EventBusName before the body fields
createDefaultParameterMappingBusFirst(props) ==
    LET mapping == IF props.eventBus # None
                   THEN custom(<<>>, "EventBusName", props.eventBus.eventBusName)
                   ELSE <<>>
    IN  custom(custom(custom(mapping,
            "Detail", <<"$request.body.Detail">>),
            "DetailType", <<"$request.body.DetailType">>),
            "Source", <<"$request.body.Source">>)

\* createDefaultParameterMapping: the entries of the new mapping
createDefaultParameterMapping(props) ==
    LET mapping == custom(custom(custom(<<>>,
                       "Detail", <<"$request.body.Detail">>),
                       "DetailType", <<"$request.body.DetailType">>),
                       "Source", <<"$request.body.Source">>)
    IN  IF props.eventBus # None
        THEN custom(mapping, "EventBusName", props.eventBus.eventBusName)
        ELSE mapping

\* parameterMapping ignoring the caller's mapping
parameterMappingAlwaysDefault(props, fresh) == fresh

\* this.props.parameterMapping ?? this.createDefaultParameterMapping(), as a
\* reference into the heap of mappings: the caller's object when there is
\* one, else the object at fresh
parameterMapping(props, fresh) ==
    IF props.parameterMapping # 0 THEN props.parameterMapping ELSE fresh

\* IntegrationConfig with the credentials of the first role of the tree
IntegrationConfigFirstRole(invokeRole, mapping) ==
    [payloadFormatVersion |-> "1.0",
     type                 |-> "AWS_PROXY",
     subtype              |-> "EventBridge-PutEvents",
     credentials          |-> 1,
     connectionType       |-> "INTERNET",
     parameterMapping     |-> mapping]

\* the config bind returns; credentials and parameterMapping are references
IntegrationConfig(invokeRole, mapping) ==
    [payloadFormatVersion |-> "1.0",
     type                 |-> "AWS_PROXY",
     subtype              |-> "EventBridge-PutEvents",
     credentials          |-> invokeRole,
     connectionType       |-> "INTERNET",
     parameterMapping     |-> mapping]

\* bind adding a second statement, on every event bus, to the invoke role
bindTwoStatements(self, scope) ==
    LET props      == integrations[self].props
        roleRef    == Len(roles) + 1
        invokeRole == addToPolicy(
                          addToPolicy(InvokeRole(scope),
                                      AllowEventBridgePutEvents(eventBusArn(props))),
                          AllowEventBridgePutEvents(formatArn("events", "event-bus", <<"*">>)))
        fresh      == Len(mappings) + 1
        isDefault  == parameterMapping(props, fresh) = fresh
    IN  [roles    |-> Append(roles, invokeRole),
         mappings |-> IF isDefault
                      THEN Append(mappings,
                                  [owner |-> "bind",
                                   mappings |-> createDefaultParameterMapping(props)])
                      ELSE mappings,
         config   |-> IntegrationConfig(roleRef, parameterMapping(props, fresh))]

\* bind keeping one default mapping object for all the binds it fits
bindSharedDefault(self, scope) ==
    LET props      == integrations[self].props
        roleRef    == Len(roles) + 1
        invokeRole == addToPolicy(InvokeRole(scope),
                                  AllowEventBridgePutEvents(eventBusArn(props)))
        fresh      == Len(mappings) + 1
        isDefault  == parameterMapping(props, fresh) = fresh
        same       == { o \in 1..Len(mappings) :
                          /\ mappings[o].owner = "bind"
                          /\ mappings[o].mappings = createDefaultParameterMapping(props) }
        reuse      == isDefault /\ same # {}
    IN  [roles    |-> Append(roles, invokeRole),
         mappings |-> IF isDefault /\ ~reuse
                      THEN Append(mappings,
                                  [owner |-> "bind",
                                   mappings |-> createDefaultParameterMapping(props)])
                      ELSE mappings,
         config   |-> IntegrationConfig(roleRef,
                          IF reuse THEN CHOOSE o \in same : TRUE
                          ELSE parameterMapping(props, fresh))]

\* bind(options) of integration instance self with options.scope = scope:
\* the roles and the mappings after the call, and the config returned
bind(self, scope) ==
    LET props      == integrations[self].props
        roleRef    == Len(roles) + 1
        invokeRole == addToPolicy(InvokeRole(scope),
                                  AllowEventBridgePutEvents(eventBusArn(props)))
        fresh      == Len(mappings) + 1
        isDefault  == parameterMapping(props, fresh) = fresh
    IN  [roles    |-> Append(roles, invokeRole),
         mappings |-> IF isDefault
                      THEN Append(mappings,
                                  [owner |-> "bind",
                                   mappings |-> createDefaultParameterMapping(props)])
                      ELSE mappings,
         config   |-> IntegrationConfig(roleRef, parameterMapping(props, fresh))]

\* ------------------------------------------------------------------ state
CallerMappings == { o \in 1..Len(mappings) : mappings[o].owner = "caller" }

Init ==
    /\ stack \in Stacks
    /\ mappings = <<>>
    /\ integrations = <<>>
    /\ roles = <<>>
    /\ configs = <<>>
    /\ httpIntegrations = <<>>
    /\ routes = <<>>

\* new apigwv2.ParameterMapping() by the caller
NewParameterMapping ==
    /\ Cardinality(CallerMappings) < MaxCallerMappings
    /\ mappings' = Append(mappings, [owner |-> "caller", mappings |-> <<>>])
    /\ UNCHANGED <<stack, integrations, roles, configs, httpIntegrations, routes>>

\* o.custom(key, value) by the caller on a mapping it owns, at any time
Custom(o, key, value) ==
    /\ o \in CallerMappings
    /\ mappings' = [mappings EXCEPT ![o].mappings = custom(@, key, value)]
    /\ UNCHANGED <<stack, integrations, roles, configs, httpIntegrations, routes>>

\* new HttpEventBridgeIntegration(id, { eventBus, parameterMapping }); pm = 0
\* stands for no parameterMapping.  integration is the HttpIntegration the
\* base class remembers once the instance is bound (0: not yet)
NewHttpEventBridgeIntegration(eventBus, pm) ==
    /\ Len(integrations) < MaxIntegrations
    /\ integrations' = Append(integrations,
           [props |-> [eventBus |-> eventBus, parameterMapping |-> pm],
            integration |-> 0])
    /\ UNCHANGED <<stack, mappings, roles, configs, httpIntegrations, routes>>

\* new HttpRoute(stack, id, { httpApi, integration }) with an instance not
\* bound yet: HttpRouteIntegration._bindToRoute calls bind with the route as
\* scope, creates the HttpIntegration from the config and remembers it
NewHttpRouteBind(self) ==
    LET route == Len(routes) + 1
        r     == bind(self, route)
    IN  /\ Len(routes) < MaxRoutes
        /\ integrations[self].integration = 0
        /\ roles' = r.roles
        /\ mappings' = r.mappings
        /\ configs' = Append(configs, [self |-> self, scope |-> route, config |-> r.config])
        /\ httpIntegrations' = Append(httpIntegrations,
               [self |-> self, scope |-> route, config |-> r.config])
        /\ integrations' = [integrations EXCEPT ![self].integration = Len(httpIntegrations) + 1]
        /\ routes' = Append(routes,
               [self |-> self, integration |-> Len(httpIntegrations) + 1])
        /\ UNCHANGED stack

\* new HttpRoute with an instance already bound: _bindToRoute returns the
\* HttpIntegration it remembers and does not call bind.  All routes are
\* routes of one HttpApi.
NewHttpRouteReuse(self) ==
    /\ Len(routes) < MaxRoutes
    /\ integrations[self].integration # 0
    /\ routes' = Append(routes,
           [self |-> self, integration |-> integrations[self].integration])
    /\ UNCHANGED <<stack, mappings, integrations, roles, configs, httpIntegrations>>

Next ==
    \/ NewParameterMapping
    \/ \E o \in 1..Len(mappings), key \in CustomKeys :
           \E value \in CustomValues(key) : Custom(o, key, value)
    \/ \E eventBus \in EventBuses \cup {None}, pm \in {0} \cup CallerMappings :
           NewHttpEventBridgeIntegration(eventBus, pm)
    \/ \E self \in 1..Len(integrations) : NewHttpRouteBind(self)
    \/ \E self \in 1..Len(integrations) : NewHttpRouteReuse(self)

Spec == Init /\ [][Next]_vars

\* ------------------------------------------------------------------ properties
\* the bind invocations so far, in order; configs[c] is what the c-th returned
Binds == 1..Len(configs)

PropsOf(c) == integrations[configs[c].self].props

\* the entries of the parameter mapping of the config the c-th bind returned
MappingOf(c) == mappings[configs[c].config.parameterMapping].mappings

\* the roles created in the scope the c-th bind was given
InvokeRolesOf(c) == { r \in 1..Len(roles) : roles[r].scope = configs[c].scope }

\* the c-th bind created a role, and every statement attached to it has
\* exactly the resources rs
GrantsOn(c, rs) ==
    /\ InvokeRolesOf(c) # {}
    /\ \A r \in InvokeRolesOf(c) :
           /\ roles[r].statements # <<>>
           /\ \A k \in 1..Len(roles[r].statements) : roles[r].statements[k].resources = rs

\* arn:<partition>:events:<region>:<account>:event-bus/* of the stack
WildcardArn ==
    <<"arn", ":", stack.partition, ":", "events", ":", stack.region, ":",
      stack.account, ":", "event-bus", "/", "*">>

BodyEntries ==
    << <<"Detail", <<"$request.body.Detail">> >>,
       <<"DetailType", <<"$request.body.DetailType">> >>,
       <<"Source", <<"$request.body.Source">> >> >>

HasBus(c) == PropsOf(c).eventBus # None

HasCustomMapping(c) == PropsOf(c).parameterMapping # 0

\* C1: a bind with an event bus (identifier I, name N) and no custom mapping
\* returns the mapping Detail, DetailType, Source, EventBusName, in that order,
\* the first three read from the request body and EventBusName being N, and
\* the statement on its role has I as its resource.
C1_DefaultMappingWithBus ==
    \A c \in Binds :
        (HasBus(c) /\ ~HasCustomMapping(c)) =>
            /\ MappingOf(c) =
                   BodyEntries \o << <<"EventBusName", PropsOf(c).eventBus.eventBusName>> >>
            /\ GrantsOn(c, << PropsOf(c).eventBus.eventBusArn >>)

C1_Witness ==
    \E c \in Binds :
        /\ HasBus(c) /\ ~HasCustomMapping(c)
        /\ PropsOf(c).eventBus = EventBus(<<"orders">>)
        /\ Len(MappingOf(c)) = 4

\* C2: a bind with no event bus and no custom mapping returns the mapping
\* Detail, DetailType, Source read from the request body, without
\* EventBusName, and the statement on its role has the wildcard
\* arn:<partition>:events:<region>:<account>:event-bus/* as its resource.
C2_DefaultMappingWithoutBus ==
    \A c \in Binds :
        (~HasBus(c) /\ ~HasCustomMapping(c)) =>
            /\ MappingOf(c) = BodyEntries
            /\ \A i \in 1..Len(MappingOf(c)) : MappingOf(c)[i][1] # "EventBusName"
            /\ GrantsOn(c, << WildcardArn >>)

C2_Witness ==
    \E c \in Binds :
        /\ ~HasBus(c) /\ ~HasCustomMapping(c)
        /\ Len(MappingOf(c)) = 3
        /\ InvokeRolesOf(c) # {}

\* C3: a bind with a custom mapping returns a config whose mapping has
\* exactly the entries of the custom mapping, with or without an event bus.
C3_CustomMappingVerbatim ==
    \A c \in Binds :
        HasCustomMapping(c) =>
            MappingOf(c) = mappings[PropsOf(c).parameterMapping].mappings

\* a custom mapping without any default key was bound together with a bus
C3_Witness ==
    \E c \in Binds :
        /\ HasCustomMapping(c) /\ HasBus(c)
        /\ \/ MappingOf(c) = <<>>
           \/ /\ Len(MappingOf(c)) = 1
              /\ MappingOf(c)[1][2] # PropsOf(c).eventBus.eventBusName

\* the routes an integration instance is attached to
RoutesOf(self) == { t \in 1..Len(routes) : routes[t].self = self }

\* C4: every bind invocation creates exactly one role with exactly one
\* statement; an integration instance attached to any number of routes has one
\* role and one integration resource in the tree, not one per route.
C4_OneRolePerBind ==
    /\ Len(roles) = Len(configs)
    /\ \A c \in Binds :
           /\ Cardinality(InvokeRolesOf(c)) = 1
           /\ \A r \in InvokeRolesOf(c) : Len(roles[r].statements) = 1
    /\ \A self \in 1..Len(integrations) :
           RoutesOf(self) # {} =>
               /\ Cardinality({ r \in 1..Len(roles) : roles[r].scope \in RoutesOf(self) }) = 1
               /\ Cardinality({ h \in 1..Len(httpIntegrations) :
                                  httpIntegrations[h].self = self }) = 1
               /\ \A t \in RoutesOf(self) :
                      routes[t].integration = integrations[self].integration

C4_Witness ==
    \E self \in 1..Len(integrations) :
        /\ Cardinality(RoutesOf(self)) >= 2
        /\ Len(roles) = 1

\* C5: every statement attached to an invoke role allows the one action
\* events:PutEvents on one resource: the ARN of the bus when the integration
\* has a bus, the wildcard when it has none.
C5_SinglePublishStatement ==
    \A c \in Binds : \A r \in InvokeRolesOf(c) :
        \A k \in 1..Len(roles[r].statements) :
            LET st == roles[r].statements[k]
            IN  /\ st.effect = "Allow"
                /\ st.actions = <<"events:PutEvents">>
                /\ Len(st.resources) = 1
                /\ HasBus(c) => st.resources[1] = PropsOf(c).eventBus.eventBusArn
                /\ ~HasBus(c) => st.resources[1] = WildcardArn

\* statements on a bus and on the wildcard, one role each
C5_Witness ==
    /\ \E c \in Binds : HasBus(c) /\ HasCustomMapping(c) /\ GrantsOn(c, << PropsOf(c).eventBus.eventBusArn >>)
    /\ \E c \in Binds : ~HasBus(c) /\ GrantsOn(c, << WildcardArn >>)

\* C6: every bind creates its role, whatever the props, and the trust policy
\* of the role is one statement allowing sts:AssumeRole to the service
\* principal apigateway.amazonaws.com and nobody else.
C6_RoleTrustsApiGatewayOnly ==
    /\ \A c \in Binds : InvokeRolesOf(c) # {}
    /\ \A r \in 1..Len(roles) :
           /\ Len(roles[r].assumeRolePolicy) = 1
           /\ roles[r].assumeRolePolicy[1].Effect = "Allow"
           /\ roles[r].assumeRolePolicy[1].Action = "sts:AssumeRole"
           /\ roles[r].assumeRolePolicy[1].Principal = [Service |-> "apigateway.amazonaws.com"]

C6_Witness ==
    /\ Len(roles) = 2
    /\ \E c \in Binds : HasBus(c) /\ HasCustomMapping(c)
    /\ \E c \in Binds : ~HasBus(c) /\ ~HasCustomMapping(c)

\* C7: the config bind returns is AWS_PROXY, EventBridge-PutEvents, payload
\* format 1.0, INTERNET, and its credentials are the role created in the same
\* bind, the one with the events:PutEvents statement.
C7_ConfigConstantsAndCredentials ==
    \A c \in Binds :
        LET cfg == configs[c].config
        IN  /\ cfg.type = "AWS_PROXY"
            /\ cfg.subtype = "EventBridge-PutEvents"
            /\ cfg.payloadFormatVersion = "1.0"
            /\ cfg.connectionType = "INTERNET"
            /\ cfg.credentials \in InvokeRolesOf(c)
            /\ \E k \in 1..Len(roles[cfg.credentials].statements) :
                   roles[cfg.credentials].statements[k].actions = <<"events:PutEvents">>
            /\ \A d \in Binds : d # c => configs[d].config.credentials # cfg.credentials

C7_Witness ==
    /\ Len(configs) = 2
    /\ configs[2].config.credentials = 2
    /\ HasBus(1) /\ ~HasBus(2)

\* the ARN ends in event-bus/<name>: its eleventh and twelfth tokens are
\* event-bus and /, and name is what follows
NameAfterEventBusSlash(arn, name) ==
    /\ Len(arn) > 12
    /\ SubSeq(arn, 11, 12) = <<"event-bus", "/">>
    /\ name = SubSeq(arn, 13, Len(arn))

\* C8: for a bus imported by its ARN and no custom mapping, EventBusName is
\* the part of the ARN after event-bus/ and the resource of the statement is
\* the ARN as imported.
C8_ImportedBusNameFromArn ==
    \A c \in Binds :
        (HasBus(c) /\ ~HasCustomMapping(c) /\ PropsOf(c).eventBus.eventBusArn \in ImportedArns) =>
            /\ Len(MappingOf(c)) = 4
            /\ MappingOf(c)[4][1] = "EventBusName"
            /\ NameAfterEventBusSlash(PropsOf(c).eventBus.eventBusArn, MappingOf(c)[4][2])
            /\ GrantsOn(c, << PropsOf(c).eventBus.eventBusArn >>)

C8_Witness ==
    \E c \in Binds :
        /\ HasBus(c) /\ ~HasCustomMapping(c)
        /\ PropsOf(c).eventBus.eventBusArn \in ImportedArns
        /\ MappingOf(c)[4] = <<"EventBusName", <<"aws.partner", "/", "acme">> >>

\* C9 as stated: the role, the statement and the parameter mapping of a bind
\* belong to that bind alone: no config refers to a mapping the caller owns,
\* and no two configs refer to the same mapping or the same role.
C9_EveryEntityFresh ==
    \A c \in Binds :
        /\ configs[c].config.parameterMapping \notin CallerMappings
        /\ \A d \in Binds :
               d # c =>
                   /\ configs[d].config.parameterMapping # configs[c].config.parameterMapping
                   /\ configs[d].config.credentials # configs[c].config.credentials

\* the role of every bind is its own; a default mapping is an object made by
\* that bind and referred to by no other config; a custom mapping is the
\* caller's object itself
C9_FreshState ==
    \A c \in Binds :
        /\ \A d \in Binds : d # c => configs[d].config.credentials # configs[c].config.credentials
        /\ ~HasCustomMapping(c) =>
               /\ mappings[configs[c].config.parameterMapping].owner = "bind"
               /\ \A d \in Binds :
                      d # c => configs[d].config.parameterMapping # configs[c].config.parameterMapping
        /\ HasCustomMapping(c) =>
               /\ configs[c].config.parameterMapping = PropsOf(c).parameterMapping
               /\ configs[c].config.parameterMapping \in CallerMappings

\* no step changes the props of an instance, a config returned, a role or a
\* mapping made by bind; a step in which bind runs changes no mapping at all
C9_Frame ==
    /\ \A i \in 1..Len(integrations) : integrations'[i].props = integrations[i].props
    /\ \A c \in 1..Len(configs) : configs'[c] = configs[c]
    /\ \A r \in 1..Len(roles) : roles'[r] = roles[r]
    /\ \A o \in 1..Len(mappings) :
           (mappings[o].owner = "bind" \/ configs' # configs) => mappings'[o] = mappings[o]

\* C9, amended: the role, its statement and a default mapping are made by
\* the bind that returns them and shared with no other bind; a custom mapping
\* is returned as the caller's own object; bind changes neither the props nor
\* anything an earlier bind returned.
C9_FreshExceptCustomMapping == [](C9_FreshState) /\ [][C9_Frame]_vars

C9_Witness ==
    \E c, d \in Binds :
        /\ ~HasCustomMapping(c)
        /\ HasCustomMapping(d)
        /\ configs[d].config.parameterMapping \in CallerMappings
        /\ mappings[configs[c].config.parameterMapping].owner = "bind"

\* C10: two binds of integrations with the same event bus prop get the same
\* resource on their statements whatever their parameter mappings: the ARN
\* of the bus when there is one, the wildcard when there is none.
C10_ScopeIndependentOfMapping ==
    \A c, d \in Binds :
        PropsOf(c).eventBus = PropsOf(d).eventBus =>
            /\ \A r \in InvokeRolesOf(c), q \in InvokeRolesOf(d) :
                   \A k \in 1..Len(roles[r].statements), l \in 1..Len(roles[q].statements) :
                       roles[r].statements[k].resources = roles[q].statements[l].resources
            /\ GrantsOn(c, << IF HasBus(c) THEN PropsOf(c).eventBus.eventBusArn
                              ELSE WildcardArn >>)

\* the same bus bound once without a mapping and once with a mapping whose
\* EventBusName names another bus
C10_Witness ==
    \E c, d \in Binds :
        /\ HasBus(c) /\ PropsOf(c).eventBus = PropsOf(d).eventBus
        /\ ~HasCustomMapping(c)
        /\ HasCustomMapping(d)
        /\ \E i \in 1..Len(MappingOf(d)) :
               /\ MappingOf(d)[i][1] = "EventBusName"
               /\ MappingOf(d)[i][2] # PropsOf(d).eventBus.eventBusName

====
